---- MODULE Spec2Model ----
(***************************************************************************)
(* A model of good_bots/core.py: the range normalizer cidr_to_range, the   *)
(* prefix extractor extract_ipv4_addresses, the additional-bots loader     *)
(* load_additional_bots and the aggregator generate_bot_ips.               *)
(*                                                                         *)
(* Text is modelled as a sequence of ASCII codes, so that splitting,       *)
(* parsing, formatting, title-casing and the lexicographic order of        *)
(* Python's str are computed and not assumed.  A JSON value is a record    *)
(* [t, v] with t the JSON type; a JSON object keeps its members as an      *)
(* ordered sequence of <<key, value>> pairs, as a Python dict does.        *)
(***************************************************************************)
EXTENDS Integers, Sequences, FiniteSets, TLC

VARIABLES
    pc,             \* position of the running call
    main_data,      \* generate_bot_ips: the fetched index document
    additional_bots,\* generate_bot_ips: what load_additional_bots returned
    bot_ip_ranges,  \* generate_bot_ips: the working mapping, name -> range list
    total_ranges,   \* generate_bot_ips: the running total
    idx,            \* generate_bot_ips: position of the for loop in main_data['data']
    status,         \* the value returned by generate_bot_ips (-1: none yet)
    exc,            \* the exception that escaped, "" when none
    outFile,        \* the output file: whether opened, whether written, its lines
    hist,           \* history of the run (observations only, never read by the code)
    arg,            \* the argument of a pure function under test
    ret             \* the result of a pure function under test

vars == <<pc, main_data, additional_bots, bot_ip_ranges, total_ranges, idx,
          status, exc, outFile, hist, arg, ret>>

----------------------------------------------------------------------------
(* Text: Python str as a sequence of ASCII codes.                          *)

\* The characters the code names, and those the inputs use.
Ch == [hyphen |-> 45, dot |-> 46, slash |-> 47, zero |-> 48, nine |-> 57,
       space |-> 32, colon |-> 58, A |-> 65, Z |-> 90, a |-> 97, z |-> 122]

IsDigit(c) == c >= Ch.zero /\ c <= Ch.nine
IsLower(c) == c >= Ch.a /\ c <= Ch.z
IsUpper(c) == c >= Ch.A /\ c <= Ch.Z

\* str.split(sep) for a one-character separator: the pieces between separators.
RECURSIVE SplitOn(_, _)
SplitOn(s, sep) ==
    IF \A k \in 1..Len(s) : s[k] # sep THEN <<s>>
    ELSE LET k == CHOOSE j \in 1..Len(s) :
                      s[j] = sep /\ \A m \in 1..(j - 1) : s[m] # sep
         IN  <<SubSeq(s, 1, k - 1)>> \o SplitOn(SubSeq(s, k + 1, Len(s)), sep)

\* int(s, 10) of a string of decimal digits.
RECURSIVE DecimalValue(_)
DecimalValue(s) ==
    IF s = <<>> THEN 0
    ELSE 10 * DecimalValue(SubSeq(s, 1, Len(s) - 1)) + (s[Len(s)] - Ch.zero)

\* str(n) of a natural number.
RECURSIVE DecimalText(_)
DecimalText(n) ==
    IF n < 10 THEN <<Ch.zero + n>>
    ELSE DecimalText(n \div 10) \o <<Ch.zero + (n % 10)>>

\* needle in haystack, for two str values: substring test.
IsSubstring(needle, hay) ==
    \E k \in 0..(Len(hay) - Len(needle)) :
        SubSeq(hay, k + 1, k + Len(needle)) = needle

\* a < b for two str values: lexicographic by code point, a proper prefix first.
StrLess(a, b) ==
    \E k \in 1..(Len(b)) :
        /\ \A m \in 1..(k - 1) : m <= Len(a) /\ a[m] = b[m]
        /\ k - 1 <= Len(a)
        /\ (k > Len(a) \/ a[k] < b[k])

\* sorted(set(xs)) for a list of str: duplicates removed, ascending.
RECURSIVE SortSet(_)
SortSet(S) ==
    IF S = {} THEN <<>>
    ELSE LET m == CHOOSE x \in S : \A y \in S \ {x} : StrLess(x, y)
         IN  <<m>> \o SortSet(S \ {m})

Range(xs) == {xs[k] : k \in 1..Len(xs)}

SortedSetOf(xs) == SortSet(Range(xs))

\* The str literals of core.py.
K == [
    data |-> <<100, 97, 116, 97>>,   \* 'data'
    source |-> <<115, 111, 117, 114, 99, 101>>,   \* 'source'
    url |-> <<117, 114, 108>>,   \* 'url'
    id |-> <<105, 100>>,   \* 'id'
    type |-> <<116, 121, 112, 101>>,   \* 'type'
    unknown |-> <<117, 110, 107, 110, 111, 119, 110>>,   \* 'unknown'
    prefixes |-> <<112, 114, 101, 102, 105, 120, 101, 115>>,   \* 'prefixes'
    ipv4Prefix |-> <<105, 112, 118, 52, 80, 114, 101, 102, 105, 120>>,   \* 'ipv4Prefix'
    additional_bots |-> <<97, 100, 100, 105, 116, 105, 111, 110, 97, 108, 95, 98, 111, 116, 115>>,   \* 'additional_bots'
    name |-> <<110, 97, 109, 101>>,   \* 'name'
    ip_ranges |-> <<105, 112, 95, 114, 97, 110, 103, 101, 115>>,   \* 'ip_ranges'
    UnknownBot |-> <<85, 110, 107, 110, 111, 119, 110, 32, 66, 111, 116>>,   \* 'Unknown Bot'
    sep |-> <<32, 45, 32>>,   \* ' - '
    main_url |-> <<104, 116, 116, 112, 115, 58, 47, 47, 115, 101, 97, 114, 99, 104, 45, 101, 110, 103, 105, 110, 101, 45, 105, 112, 45, 116, 114, 97, 99, 107, 101, 114, 46, 109, 101, 114, 106, 46, 99, 111, 109, 47, 115, 116, 97, 116, 117, 115>>    \* 'https://search-engine-ip-tracker.merj.com/status'
    ]

\* The texts the inputs are built from.
T == [
    bot |-> <<98, 111, 116>>,   \* 'bot'
    BOT |-> <<66, 79, 84>>,   \* 'BOT'
    a_b |-> <<97, 45, 98>>,   \* 'a-b'
    a_sp_b |-> <<97, 32, 98>>,   \* 'a b'
    c |-> <<99>>,   \* 'c'
    x |-> <<120>>,   \* 'x'
    invalid |-> <<105, 110, 118, 97, 108, 105, 100>>,   \* 'invalid'
    status |-> <<115, 116, 97, 116, 117, 115>>,   \* 'status'
    u1 |-> <<104, 116, 116, 112, 115, 58, 47, 47, 97, 47, 49>>,   \* 'https://a/1'
    u2 |-> <<104, 116, 116, 112, 115, 58, 47, 47, 97, 47, 50>>,   \* 'https://a/2'
    zeta |-> <<122, 101, 116, 97>>,   \* 'zeta'
    UnknownAB |-> <<85, 110, 107, 110, 111, 119, 110, 32, 45, 32, 65, 32, 66>>,   \* 'Unknown - A B'
    UNKNOWN |-> <<85, 78, 75, 78, 79, 87, 78>>,   \* 'UNKNOWN'
    net24 |-> <<49, 57, 50, 46, 48, 46, 50, 46, 48, 47, 50, 52>>,   \* '192.0.2.0/24'
    host24 |-> <<49, 57, 50, 46, 48, 46, 50, 46, 55, 55, 47, 50, 52>>,   \* '192.0.2.77/24'
    net8 |-> <<49, 48, 46, 48, 46, 48, 46, 48, 47, 56>>,   \* '10.0.0.0/8'
    v6 |-> <<50, 48, 48, 49, 58, 100, 98, 56, 58, 58, 47, 51, 50>>,   \* '2001:db8::/32'
    len33 |-> <<49, 57, 50, 46, 48, 46, 50, 46, 48, 47, 51, 51>>,   \* '192.0.2.0/33'
    oct256 |-> <<50, 53, 54, 46, 48, 46, 48, 46, 48, 47, 56>>,   \* '256.0.0.0/8'
    three |-> <<49, 46, 50, 46, 51, 47, 56>>,   \* '1.2.3/8'
    twoslash |-> <<49, 46, 50, 46, 51, 46, 52, 47, 56, 47, 57>>,   \* '1.2.3.4/8/9'
    lead0 |-> <<48, 49, 46, 50, 46, 51, 46, 52, 47, 56>>,   \* '01.2.3.4/8'
    noprefix |-> <<49, 46, 50, 46, 51, 46, 52, 47>>,   \* '1.2.3.4/'
    badmask |-> <<49, 46, 50, 46, 51, 46, 52, 47, 50, 53, 53, 46, 48, 46, 50, 53, 53, 46, 48>>,   \* '1.2.3.4/255.0.255.0'
    empty |-> <<>>,   \* ''
    single |-> <<49, 48, 46, 48, 46, 48, 46, 49>>,   \* '10.0.0.1'
    literal |-> <<49, 48, 46, 48, 46, 48, 46, 53, 45, 49, 48, 46, 48, 46, 48, 46, 57>>    \* '10.0.0.5-10.0.0.9'
    ]

\* An optional str: the result of a function that may return None.
None == [some |-> FALSE, val |-> <<>>]
Some(s) == [some |-> TRUE, val |-> s]

----------------------------------------------------------------------------
(* cidr_to_range: ipaddress.IPv4Network(cidr, strict=False), then the      *)
(* network and broadcast addresses as text.  An address is its four        *)
(* octets; the 32-bit operations are done on the 32 bits, most significant *)
(* first.                                                                  *)

AddrBits == 32

\* IPv4Address._parse_octet: the octet, or -1 where Python raises ValueError.
parse_octet(s) ==
    IF s = <<>> THEN -1
    ELSE IF \E k \in 1..Len(s) : ~IsDigit(s[k]) THEN -1
    ELSE IF Len(s) > 3 THEN -1
    ELSE IF Len(s) > 1 /\ s[1] = Ch.zero THEN -1
    ELSE IF DecimalValue(s) > 255 THEN -1
    ELSE DecimalValue(s)

\* The octets of a dotted text already split at the dots.
OctetsOf(octets) ==
    IF Len(octets) # 4 THEN <<>>
    ELSE IF \E k \in 1..4 : parse_octet(octets[k]) = -1 THEN <<>>
    ELSE [k \in 1..4 |-> parse_octet(octets[k])]

\* IPv4Address._ip_int_from_string: the four octets, or <<>> where Python
\* raises AddressValueError.
ip_int_from_string(s) ==
    IF s = <<>> THEN <<>> ELSE OctetsOf(SplitOn(s, Ch.dot))

\* The 32 bits of an address, most significant first, and back.
ToBits(octets) ==
    [k \in 1..AddrBits |->
        (octets[((k - 1) \div 8) + 1] \div (2 ^ (7 - ((k - 1) % 8)))) % 2]

RECURSIVE BitsValue(_)
BitsValue(bits) ==
    IF bits = <<>> THEN 0
    ELSE 2 * BitsValue(SubSeq(bits, 1, Len(bits) - 1)) + bits[Len(bits)]

FromBits(bits) == [k \in 1..4 |-> BitsValue(SubSeq(bits, 8 * k - 7, 8 * k))]

BitAnd(x, y) == [k \in 1..AddrBits |-> x[k] * y[k]]
BitOr(x, y) == [k \in 1..AddrBits |-> IF x[k] + y[k] > 0 THEN 1 ELSE 0]
BitNot(x) == [k \in 1..AddrBits |-> 1 - x[k]]

\* _ip_int_from_prefix: ALL_ONES ^ (ALL_ONES >> prefixlen).
ip_int_from_prefix(prefixlen) ==
    [k \in 1..AddrBits |-> IF k <= prefixlen THEN 1 ELSE 0]

\* _prefix_from_prefix_string: the prefix length, or -1 (NetmaskValueError).
prefix_from_prefix_string(s) ==
    IF s = <<>> \/ \E k \in 1..Len(s) : ~IsDigit(s[k]) THEN -1
    ELSE IF DecimalValue(s) > AddrBits THEN -1
    ELSE DecimalValue(s)

\* The number of zero bits at the right end (_count_righthand_zero_bits).
TrailingZeroes(bits) ==
    IF \A k \in 1..AddrBits : bits[k] = 0 THEN AddrBits
    ELSE AddrBits - (CHOOSE k \in 1..AddrBits :
                        bits[k] = 1 /\ \A m \in (k + 1)..AddrBits : bits[m] = 0)

\* _prefix_from_ip_int: the prefix length of a netmask 1*0*, or -1 (ValueError).
prefix_from_ip_int(bits) ==
    IF \A k \in 1..(AddrBits - TrailingZeroes(bits)) : bits[k] = 1
    THEN AddrBits - TrailingZeroes(bits)
    ELSE -1

\* The first of two parses that succeeded (try ... except ...: the second).
FirstValid(first, second) == IF first # -1 THEN first ELSE second

\* The prefix length of a parsed dotted mask: a netmask, or else a hostmask.
MaskPrefix(octets) ==
    IF octets = <<>> THEN -1
    ELSE FirstValid(prefix_from_ip_int(ToBits(octets)),
                    prefix_from_ip_int(BitNot(ToBits(octets))))

\* _prefix_from_ip_string: a dotted netmask or hostmask, or -1.
prefix_from_ip_string(s) == MaskPrefix(ip_int_from_string(s))

\* _make_netmask for the text after the slash.
make_netmask(s) == FirstValid(prefix_from_prefix_string(s), prefix_from_ip_string(s))

\* str(IPv4Address): the four octets in decimal, joined by dots.
AddressText(octets) ==
    DecimalText(octets[1]) \o <<Ch.dot>> \o DecimalText(octets[2]) \o <<Ch.dot>>
        \o DecimalText(octets[3]) \o <<Ch.dot>> \o DecimalText(octets[4])

\* A normalizer that keeps the host bits of the address it was given.
NetworkBits_KeepHostBits(packed, netmask) == packed

\* The clearing of the host bits done by IPv4Network(strict=False).
NetworkBits(packed, netmask) == BitAnd(packed, netmask)

\* "<network_address>-<broadcast_address>" (lines 38-40).
RangeText(network, hostmask) ==
    AddressText(FromBits(network)) \o <<Ch.hyphen>>
        \o AddressText(FromBits(BitOr(network, hostmask)))

\* IPv4Network.__init__ once the address and the mask are parsed.
NetworkRange(addr, prefixlen) ==
    IF addr = <<>> \/ prefixlen = -1 THEN None
    ELSE Some(RangeText(NetworkBits(ToBits(addr), ip_int_from_prefix(prefixlen)),
                        BitNot(ip_int_from_prefix(prefixlen))))

\* The text split at the slashes: more than one slash is an error, none is /32.
PartsRange(parts) ==
    IF Len(parts) > 2 THEN None
    ELSE NetworkRange(ip_int_from_string(parts[1]),
                      IF Len(parts) = 1 THEN AddrBits ELSE make_netmask(parts[2]))

\* core.cidr_to_range for a str argument: None where IPv4Network raises ValueError.
cidr_to_range(cidr) == PartsRange(SplitOn(cidr, Ch.slash))

----------------------------------------------------------------------------
(* JSON values as json.loads and response.json() build them, and the       *)
(* Python operations the code applies to them.  None is the JSON null.     *)

JNull == [t |-> "null", v |-> <<>>]
JNum(n) == [t |-> "num", v |-> <<n>>]
JStr(s) == [t |-> "str", v |-> s]
JList(items) == [t |-> "list", v |-> items]
JDict(pairs) == [t |-> "dict", v |-> pairs]

\* bool(j): the truth value Python gives a JSON value.
Truthy(j) ==
    CASE j.t = "null" -> FALSE
      [] j.t = "num" -> j.v[1] # 0
      [] OTHER -> Len(j.v) > 0

HasKey(d, key) == \E k \in 1..Len(d.v) : d.v[k][1] = key

Lookup(d, key) == d.v[CHOOSE k \in 1..Len(d.v) : d.v[k][1] = key][2]

\* `key in j` raises TypeError for a value that is not a container.
ContainsRaises(j) == j.t \in {"null", "num"}

\* `key in j` for a dict (a key), a list (an element) or a str (a substring).
Contains(key, j) ==
    CASE j.t = "dict" -> HasKey(j, key)
      [] j.t = "list" -> \E k \in 1..Len(j.v) : j.v[k] = JStr(key)
      [] j.t = "str" -> IsSubstring(key, j.v)
      [] OTHER -> FALSE

\* `j[key]` with a str key raises TypeError for anything but a dict.
SubscriptRaises(j) == j.t # "dict"

\* `for x in j` raises TypeError for a value that is not iterable.
IterRaises(j) == j.t \in {"null", "num"}

\* The items `for x in j` visits: list elements, dict keys, str characters.
IterItems(j) ==
    CASE j.t = "list" -> j.v
      [] j.t = "dict" -> [k \in 1..Len(j.v) |-> JStr(j.v[k][1])]
      [] j.t = "str" -> [k \in 1..Len(j.v) |-> JStr(<<j.v[k]>>)]
      [] OTHER -> <<>>

\* d.get(key, default) of a dict.
DictGet(d, key, default) == IF HasKey(d, key) THEN Lookup(d, key) ELSE default

----------------------------------------------------------------------------
(* extract_ipv4_addresses                                                  *)

\* `if ip_range: ipv4_ranges.append(ip_range)`
AppendRange(ranges, ip_range) ==
    IF ip_range.some /\ ip_range.val # <<>> THEN Append(ranges, ip_range.val) ELSE ranges

\* The body of the loop over data['prefixes'] (lines 64-75).
ExtractStep(prefix, ipv4_ranges) ==
    IF prefix.t # "dict" THEN ipv4_ranges
    ELSE IF ~HasKey(prefix, K.ipv4Prefix) THEN ipv4_ranges
    ELSE IF Lookup(prefix, K.ipv4Prefix).t # "str" THEN ipv4_ranges
    ELSE AppendRange(ipv4_ranges, cidr_to_range(Lookup(prefix, K.ipv4Prefix).v))

\* An extractor that stops at the first element it cannot use.
RECURSIVE ExtractLoop_StopAtInvalid(_, _)
ExtractLoop_StopAtInvalid(prefixes, ipv4_ranges) ==
    IF prefixes = <<>> THEN ipv4_ranges
    ELSE IF ExtractStep(Head(prefixes), ipv4_ranges) = ipv4_ranges THEN ipv4_ranges
    ELSE ExtractLoop_StopAtInvalid(Tail(prefixes), ExtractStep(Head(prefixes), ipv4_ranges))

\* The loop over data['prefixes'], appending to ipv4_ranges.
RECURSIVE ExtractLoop(_, _)
ExtractLoop(prefixes, ipv4_ranges) ==
    IF prefixes = <<>> THEN ipv4_ranges
    ELSE ExtractLoop(Tail(prefixes), ExtractStep(Head(prefixes), ipv4_ranges))

extract_ipv4_addresses(data) ==
    IF data.t # "dict" THEN <<>>
    ELSE IF ~HasKey(data, K.prefixes) THEN <<>>
    ELSE IF Lookup(data, K.prefixes).t # "list" THEN <<>>
    ELSE ExtractLoop(Lookup(data, K.prefixes).v, <<>>)

----------------------------------------------------------------------------
(* The inputs.                                                             *)

MaxPrefixes == 2    \* longest `prefixes` list of a per-source document

SeqsUpTo(S, n) == UNION {[1..k -> S] : k \in 0..n}

\* The elements a `prefixes` list is built from.
PrefixElems == {
    JDict(<< <<K.ipv4Prefix, JStr(T.net24)>> >>),
    JDict(<< <<K.ipv4Prefix, JStr(T.host24)>> >>),   \* the same block as net24
    JDict(<< <<K.ipv4Prefix, JStr(T.net8)>> >>),
    JDict(<< <<K.ipv4Prefix, JStr(T.v6)>> >>),
    JDict(<< <<K.ipv4Prefix, JNum(5)>> >>),
    JDict(<< <<T.invalid, JStr(T.x)>> >>),
    JStr(T.x)
    }

\* The documents a per-source URL may answer with.
PrefixDocs ==
    {JDict(<< <<K.prefixes, JList(ps)>> >>) : ps \in SeqsUpTo(PrefixElems, MaxPrefixes)}
    \cup {JNum(5),
          JList(<<JStr(K.prefixes)>>),
          JDict(<< <<T.status, JStr(T.x)>> >>),
          JDict(<< <<K.prefixes, JStr(T.net24)>> >>),
          JDict(<< <<K.prefixes, JDict(<< <<K.ipv4Prefix, JStr(T.net24)>> >>)>> >>)}

Prefixes(cidrs) ==
    JDict(<< <<K.prefixes,
               JList([k \in 1..Len(cidrs) |-> JDict(<< <<K.ipv4Prefix, JStr(cidrs[k])>> >>)])>> >>)

\* The documents the per-source URLs of a run answer with: two blocks out of
\* order, one block listed twice, an IPv6 block only, and no `prefixes` at all.
SourceDocs == {
    Prefixes(<<T.net24, T.net8>>),
    Prefixes(<<T.net24, T.host24>>),
    Prefixes(<<T.v6>>),
    JDict(<< <<T.status, JStr(T.x)>> >>)
    }

\* The octets the addresses of the normalizer's inputs are built from.
Octets == {0, 10, 77, 128, 255}

\* Texts that are no IPv4 network: IPv6, words, bad lengths, octets and masks.
NotCidrTexts == {T.v6, T.invalid, T.len33, T.oct256, T.three, T.twoslash,
                 T.lead0, T.noprefix, T.badmask, T.empty, T.literal}

CidrText(a, n) == AddressText(a) \o <<Ch.slash>> \o DecimalText(n)

CidrInputs ==
    {[kind |-> "cidr", a |-> a, n |-> n, text |-> CidrText(a, n)] :
        a \in [1..4 -> Octets], n \in 0..AddrBits}
    \cup {[kind |-> "other", a |-> <<0, 0, 0, 0>>, n |-> 0, text |-> t] :
        t \in NotCidrTexts}

----------------------------------------------------------------------------
(* The pure functions, each applied to one input.                          *)

NoFile == [opened |-> FALSE, written |-> FALSE, lines |-> <<>>]
NoHist == [fetches |-> <<>>,      \* the fetches made: [i: 0 the index, k the k-th entry; url]
           failed |-> FALSE,      \* the last fetch returned None
           usable |-> FALSE,      \* the last fetched document holds a usable prefix
           stored |-> <<>>,       \* the name the last step stored under, <<>> for none
           lastInput |-> <<>>,    \* name -> the set of ranges of the last input of that name
           shared |-> {},         \* the names that two inputs produced
           bundled |-> "",        \* load_additional_bots, until it returns: how the read
                                  \* of the bundled resource ended
           local |-> "",          \* and how the read of the local file ended
           writeFailed |-> FALSE] \* the write of the output file raised IOError

Idle(p, x) ==
    /\ pc = p
    /\ arg = x
    /\ ret = <<>>
    /\ main_data = JNull
    /\ additional_bots = <<>>
    /\ bot_ip_ranges = <<>>
    /\ total_ranges = 0
    /\ idx = 0
    /\ status = -1
    /\ exc = ""
    /\ outFile = NoFile
    /\ hist = NoHist

Frame == UNCHANGED <<main_data, additional_bots, bot_ip_ranges, total_ranges, idx,
                     status, exc, outFile, hist, arg>>

InitCidr == \E x \in CidrInputs : Idle("cidr_call", x)

CidrToRange ==
    /\ pc = "cidr_call"
    /\ ret' = cidr_to_range(arg.text)
    /\ pc' = "cidr_ret"
    /\ Frame

SpecCidr == InitCidr /\ [][CidrToRange]_vars

InitExtract == \E d \in PrefixDocs : Idle("extract_call", d)

ExtractIpv4Addresses ==
    /\ pc = "extract_call"
    /\ ret' = extract_ipv4_addresses(arg)
    /\ pc' = "extract_ret"
    /\ Frame

SpecExtract == InitExtract /\ [][ExtractIpv4Addresses]_vars

----------------------------------------------------------------------------
(* load_additional_bots: the conversion of a parsed configuration          *)
(* (lines 113-129).  A result is [exc, val]: the exception that escapes,   *)
(* or "" and the value.                                                    *)

Raised(e) == [exc |-> e, val |-> <<>>]
Returned(v) == [exc |-> "", val |-> v]

\* mapping[name] = value: an ordinary dict assignment.
DictSet(mapping, name, value) ==
    [n \in (DOMAIN mapping) \cup {name} |-> IF n = name THEN value ELSE mapping[n]]

\* additional_ranges[bot_name] = sorted(set(ip_ranges))
SetAdditional(additional_ranges, bot_name, ip_ranges) ==
    DictSet(additional_ranges, bot_name, SortedSetOf(ip_ranges))

\* The body of the loop over bot.get('ip_ranges', []) for a str (lines 119-124).
IpRangeStep(ip_range, ip_ranges) ==
    IF IsSubstring(<<Ch.slash>>, ip_range)
    THEN AppendRange(ip_ranges, cidr_to_range(ip_range))
    ELSE Append(ip_ranges, ip_range)

\* The loop over bot.get('ip_ranges', []).  `'/' in ip_range` raises TypeError
\* for a number or null; the inputs hold no list or dict as a range.
RECURSIVE IpRangesLoop(_, _)
IpRangesLoop(items, ip_ranges) ==
    IF items = <<>> THEN Returned(ip_ranges)
    ELSE IF Head(items).t # "str" THEN Raised("TypeError")
    ELSE IpRangesLoop(Tail(items), IpRangeStep(Head(items).v, ip_ranges))

\* `if ip_ranges: additional_ranges[bot_name] = ...` for a converted list.
StoreAdditional(additional_ranges, bot_name, r) ==
    IF r.exc # "" THEN r
    ELSE IF r.val # <<>> THEN Returned(SetAdditional(additional_ranges, bot_name.v, r.val))
    ELSE Returned(additional_ranges)

\* The body of the loop over the bots (lines 115-127).  bot.get raises
\* AttributeError for a bot that is no dict; the inputs hold str names only.
BotStep(bot, additional_ranges) ==
    IF bot.t # "dict" THEN Raised("AttributeError")
    ELSE IF IterRaises(DictGet(bot, K.ip_ranges, JList(<<>>))) THEN Raised("TypeError")
    ELSE StoreAdditional(additional_ranges,
             DictGet(bot, K.name, JStr(K.UnknownBot)),
             IpRangesLoop(IterItems(DictGet(bot, K.ip_ranges, JList(<<>>))), <<>>))

\* The loop over config.get('additional_bots', []).
RECURSIVE BotsLoop(_, _)
BotsLoop(bots, r) ==
    IF r.exc # "" \/ bots = <<>> THEN r
    ELSE BotsLoop(Tail(bots), BotStep(Head(bots), r.val))

\* Lines 113-129 for a parsed configuration document.
ConvertConfig(cfg) ==
    IF cfg.t # "dict" THEN Raised("AttributeError")
    ELSE IF IterRaises(DictGet(cfg, K.additional_bots, JList(<<>>))) THEN Raised("TypeError")
    ELSE BotsLoop(IterItems(DictGet(cfg, K.additional_bots, JList(<<>>))), Returned(<<>>))

\* The exceptions each try statement of load_additional_bots(None) catches, and
\* the ways a read may end.
BundledCaught == {"FileNotFoundError", "ImportError", "JSONDecodeError"}
LocalCaught == {"JSONDecodeError", "IOError"}
BundledOutcomes == {"ok"} \cup BundledCaught \cup {"PermissionError", "UnicodeDecodeError"}
LocalOutcomes == {"absent", "ok"} \cup LocalCaught \cup {"UnicodeDecodeError"}

----------------------------------------------------------------------------
(* generate_bot_ips                                                        *)

\* str.title() on ASCII text: a letter after a non-letter is upper-cased, a
\* letter after a letter lower-cased.
Title(s) ==
    [k \in 1..Len(s) |->
        IF IsLower(s[k]) \/ IsUpper(s[k])
        THEN IF k > 1 /\ (IsLower(s[k - 1]) \/ IsUpper(s[k - 1]))
             THEN (IF IsUpper(s[k]) THEN s[k] + (Ch.a - Ch.A) ELSE s[k])
             ELSE (IF IsLower(s[k]) THEN s[k] - (Ch.a - Ch.A) ELSE s[k])
        ELSE s[k]]

\* str.replace(old, new) for one-character old and new.
Replace(s, old, new) == [k \in 1..Len(s) |-> IF s[k] = old THEN new ELSE s[k]]

\* f"{source_type.title()} - {source_id.replace('-', ' ').title()}"
BotName(source_type, source_id) ==
    Title(source_type) \o K.sep \o Title(Replace(source_id, Ch.hyphen, Ch.space))

\* The test of line 142: "reject" (return 1), "raise" or "accept".
IndexCheck(doc) ==
    IF ~Truthy(doc) THEN "reject"
    ELSE IF ContainsRaises(doc) THEN "raise"
    ELSE IF ~Contains(K.data, doc) THEN "reject"
    ELSE "accept"

\* sum(len(ranges) for ranges in additional_bots.values())
RECURSIVE SumLens(_, _)
SumLens(mapping, names) ==
    IF names = {} THEN 0
    ELSE LET n == CHOOSE x \in names : TRUE
         IN  Len(mapping[n]) + SumLens(mapping, names \ {n})

\* Lines 155-160 for one item of main_data['data']: skip it, raise, or fetch.
ItemPlan(item) ==
    IF ContainsRaises(item) THEN [do |-> "raise", source |-> JNull]
    ELSE IF ~Contains(K.source, item) THEN [do |-> "skip", source |-> JNull]
    ELSE IF SubscriptRaises(item) THEN [do |-> "raise", source |-> JNull]
    ELSE LET source == Lookup(item, K.source) IN
         IF ContainsRaises(source) THEN [do |-> "raise", source |-> JNull]
         ELSE IF ~Contains(K.url, source) THEN [do |-> "skip", source |-> JNull]
         ELSE IF SubscriptRaises(source) THEN [do |-> "raise", source |-> JNull]
         ELSE [do |-> "fetch", source |-> source]

\* What fetch_json may return for a URL: None (any failure of the request, a
\* value that is no URL included) or the parsed body.
FetchResults(url) == IF url.t = "str" THEN {JNull} \cup SourceDocs ELSE {JNull}

\* extract_ipv4_addresses on every document a fetch may return.
Extracted == [d \in {JNull} \cup SourceDocs |-> extract_ipv4_addresses(d)]

\* An aggregator that stores whatever the fetch and the extraction gave.
YieldsRanges_Always(endpoint_data) == TRUE

\* `if endpoint_data:` and `if ipv4_ranges:` (lines 165-167).
YieldsRanges(endpoint_data) ==
    Truthy(endpoint_data) /\ Extracted[endpoint_data] # <<>>

\* An aggregator that stores the extracted list as it is.
SetBot_Unsorted(mapping, bot_name, ipv4_ranges) ==
    DictSet(mapping, bot_name, ipv4_ranges)

\* An aggregator that adds the ranges to those already stored under the name.
SetBot_Merged(mapping, bot_name, ipv4_ranges) ==
    DictSet(mapping, bot_name,
            SortSet(Range(ipv4_ranges) \cup
                    (IF bot_name \in DOMAIN mapping THEN Range(mapping[bot_name]) ELSE {})))

\* bot_ip_ranges[bot_name] = sorted(set(ipv4_ranges))
SetBot(mapping, bot_name, ipv4_ranges) ==
    DictSet(mapping, bot_name, SortedSetOf(ipv4_ranges))

\* total_ranges += len(ipv4_ranges)
AddToTotal(total, ipv4_ranges) == total + Len(ipv4_ranges)

\* A writer that reports success whatever the write did.
WriteStatus_AlwaysZero(written) == 0

\* `return 0` after the write, `return 1` in the IOError handler (lines 221-224).
WriteStatus(written) == IF written THEN 0 ELSE 1

\* sorted(bot_ip_ranges.items()): the names in ascending order.
SortedNames(mapping) == SortSet(DOMAIN mapping)

Line(kind, text, number) == [k |-> kind, s |-> text, n |-> number]

\* Lines 198-202: per bot a comment, its ranges, a blank line.
RECURSIVE RenderBots(_, _)
RenderBots(names, mapping) ==
    IF names = <<>> THEN <<>>
    ELSE <<Line("bot", Head(names), 0)>>
         \o [k \in 1..Len(mapping[Head(names)]) |->
                Line("range", mapping[Head(names)][k], 0)]
         \o <<Line("blank", <<>>, 0)>>
         \o RenderBots(Tail(names), mapping)

\* The count written after `# Total IP ranges:`.
TotalLine(total) == Line("total", <<>>, total)

\* Lines 189-207: output_content, line by line.
OutputContent(mapping, total) ==
    <<Line("header", <<>>, 0), Line("generated_on", <<>>, 0),
      Line("source", K.main_url, 0), Line("blank", <<>>, 0), Line("open", <<>>, 0)>>
    \o RenderBots(SortedNames(mapping), mapping)
    \o <<Line("close", <<>>, 0), Line("blank", <<>>, 0), TotalLine(total)>>

----------------------------------------------------------------------------
(* The inputs of a run.                                                    *)

MaxData == 2    \* longest `data` list of the index document
MaxBots == 2    \* longest `additional_bots` list of the configuration

Source(pairs) == JDict(<< <<K.source, JDict(pairs)>> >>)

\* The elements a `data` list is built from.
Entries == {
    Source(<< <<K.url, JStr(T.u1)>>, <<K.id, JStr(T.a_b)>> >>),
    Source(<< <<K.url, JStr(T.u2)>>, <<K.id, JStr(T.a_sp_b)>>, <<K.type, JStr(T.UNKNOWN)>> >>),
    Source(<< <<K.id, JStr(T.c)>>, <<K.type, JStr(T.bot)>> >>),
    JNum(5),
    JDict(<< <<K.source, JNum(5)>> >>),
    Source(<< <<K.url, JStr(T.u2)>>, <<K.id, JNum(5)>>, <<K.type, JStr(T.bot)>> >>)
    }

\* What the fetch of the index may return: None, or the parsed body.
IndexResults ==
    {JDict(<< <<K.data, JList(es)>> >>) : es \in SeqsUpTo(Entries, MaxData)}
    \cup {JNull,
          JDict(<<>>),
          JDict(<< <<T.status, JStr(T.x)>> >>),
          JNum(5),
          JStr(T.status),
          JStr(K.data),
          JList(<<JStr(K.data)>>),
          JDict(<< <<K.data, JStr(T.x)>> >>),
          JDict(<< <<K.data, JNum(5)>> >>),
          JDict(<< <<K.data, JDict(<< <<T.status, JStr(T.x)>> >>)>> >>)}

Bot(name, ranges) ==
    JDict(<< <<K.name, JStr(name)>>,
             <<K.ip_ranges, JList([k \in 1..Len(ranges) |-> JStr(ranges[k])])>> >>)

\* The elements an `additional_bots` list is built from.
BotElems == {
    Bot(T.UnknownAB, <<T.net24, T.host24>>),
    Bot(T.UnknownAB, <<T.single, T.net8>>),
    Bot(T.UnknownAB, <<T.v6>>),
    JDict(<< <<K.ip_ranges, JList(<<JStr(T.literal)>>)>> >>),
    JStr(T.x)
    }

\* The configuration documents a read may parse to.
AdditionalConfigs ==
    {JDict(<< <<K.additional_bots, JList(bs)>> >>) : bs \in SeqsUpTo(BotElems, MaxBots)}
    \cup {JDict(<<>>),
          JList(<<>>),
          JDict(<< <<K.additional_bots, JNum(5)>> >>),
          JDict(<< <<K.additional_bots,
                     JList(<<JDict(<< <<K.name, JStr(T.zeta)>>,
                                      <<K.ip_ranges, JList(<<JNum(5)>>)>> >>)>>)>> >>)}

----------------------------------------------------------------------------
(* Observations of a run, computed from the inputs alone.                  *)

\* A `prefixes` element the normalizer accepts.
UsableElem(e) ==
    /\ e.t = "dict"
    /\ HasKey(e, K.ipv4Prefix)
    /\ Lookup(e, K.ipv4Prefix).t = "str"
    /\ cidr_to_range(Lookup(e, K.ipv4Prefix).v).some

\* The positions of the usable elements of a fetched document.
UsableAt(d) ==
    IF d.t = "dict" /\ HasKey(d, K.prefixes) /\ Lookup(d, K.prefixes).t = "list"
    THEN {k \in 1..Len(Lookup(d, K.prefixes).v) : UsableElem(Lookup(d, K.prefixes).v[k])}
    ELSE {}

\* The ranges a fetched document names, as a set.
RangesOf(d) ==
    {cidr_to_range(Lookup(Lookup(d, K.prefixes).v[k], K.ipv4Prefix).v).val : k \in UsableAt(d)}

Usable == [d \in {JNull} \cup SourceDocs |-> UsableAt(d) # {}]
RangeSets == [d \in {JNull} \cup SourceDocs |-> RangesOf(d)]

\* The range one listed text of an additional bot stands for, as a set.
TextRanges(t) ==
    IF ~IsSubstring(<<Ch.slash>>, t) THEN {t}
    ELSE IF cidr_to_range(t).some THEN {cidr_to_range(t).val}
    ELSE {}

\* The ranges one well-formed additional bot names, as a set.
ListedRanges(rs) == UNION {TextRanges(rs[k].v) : k \in 1..Len(rs)}

BotRanges(bot) == ListedRanges(Lookup(bot, K.ip_ranges).v)

BotNameOf(bot) == IF HasKey(bot, K.name) THEN Lookup(bot, K.name).v ELSE K.UnknownBot

\* The positions of the bots that name any range.
Giving(bots) == {k \in 1..Len(bots) : BotRanges(bots[k]) # {}}

\* Among positions ks, the last one of the bot named n.
LastNamed(bots, ks, n) ==
    CHOOSE k \in ks : /\ BotNameOf(bots[k]) = n
                      /\ \A j \in ks : BotNameOf(bots[j]) = n => j <= k

ObservedBots(bots, ks) ==
    [lastInput |-> [n \in {BotNameOf(bots[k]) : k \in ks} |->
                       BotRanges(bots[LastNamed(bots, ks, n)])],
     shared |-> {n \in {BotNameOf(bots[k]) : k \in ks} :
                    Cardinality({k \in ks : BotNameOf(bots[k]) = n}) > 1}]

\* For a configuration that converts: per name, the ranges of the last bot of that
\* name that names any range; and the names two such bots share.
ConfigObservation(cfg) ==
    IF ConvertConfig(cfg).exc # "" \/ ~HasKey(cfg, K.additional_bots)
    THEN [lastInput |-> <<>>, shared |-> {}]
    ELSE ObservedBots(Lookup(cfg, K.additional_bots).v, Giving(Lookup(cfg, K.additional_bots).v))

\* The name a source gives its bot, <<>> where its id or type is no str.
SourceName(source) ==
    IF DictGet(source, K.id, JStr(K.unknown)).t = "str"
       /\ DictGet(source, K.type, JStr(K.unknown)).t = "str"
    THEN Title(DictGet(source, K.type, JStr(K.unknown)).v) \o K.sep
         \o Title(Replace(DictGet(source, K.id, JStr(K.unknown)).v, Ch.hyphen, Ch.space))
    ELSE <<>>

\* The history after the fetch of the i-th entry: the fetch, whether it failed,
\* whether the document holds a usable prefix and, when it does, the document's
\* ranges as the last input of the source's name.
Observed(h, i, source, endpoint_data) ==
    [h EXCEPT
        !.fetches = Append(@, [i |-> i, url |-> Lookup(source, K.url)]),
        !.failed = (endpoint_data = JNull),
        !.usable = Usable[endpoint_data],
        !.stored = <<>>,
        !.lastInput = IF Usable[endpoint_data] /\ SourceName(source) # <<>>
                      THEN DictSet(@, SourceName(source), RangeSets[endpoint_data])
                      ELSE @,
        !.shared = IF Usable[endpoint_data] /\ SourceName(source) \in DOMAIN h.lastInput
                   THEN @ \cup {SourceName(source)}
                   ELSE @]

\* The conversion and the observation of every configuration a read may give.
ConvertedConfigs == [cfg \in AdditionalConfigs |-> ConvertConfig(cfg)]
ConfigObservations == [cfg \in AdditionalConfigs |-> ConfigObservation(cfg)]

----------------------------------------------------------------------------
(* One run of generate_bot_ips, a step per input or output operation.      *)

Init ==
    /\ pc = "fetch_index"
    /\ main_data = JNull
    /\ additional_bots = <<>>
    /\ bot_ip_ranges = <<>>
    /\ total_ranges = 0
    /\ idx = 0
    /\ status = -1
    /\ exc = ""
    /\ outFile = NoFile
    /\ hist = NoHist
    /\ arg = <<>>
    /\ ret = <<>>

Raise(e) == pc' = "raised" /\ exc' = e /\ UNCHANGED status
Return(code) == pc' = "done" /\ status' = code /\ UNCHANGED exc
Goto(p) == pc' = p /\ UNCHANGED <<status, exc>>

\* Lines 137-144: fetch the index, return 1 without it.
FetchIndex ==
    /\ pc = "fetch_index"
    /\ \E r \in IndexResults :
        /\ main_data' = r
        /\ hist' = [hist EXCEPT !.fetches = Append(@, [i |-> 0, url |-> JStr(K.main_url)]),
                                !.failed = (r = JNull)]
        /\ CASE IndexCheck(r) = "reject" -> Return(1)
             [] IndexCheck(r) = "raise" -> Raise("TypeError")
             [] OTHER -> Goto("load_bundled")
    /\ UNCHANGED <<additional_bots, bot_ip_ranges, total_ranges, idx, outFile, arg, ret>>

\* load_additional_bots ends: it raises, or returns to line 147.
LoadEnds(r) ==
    IF r.exc # "" THEN Raise(r.exc) /\ UNCHANGED additional_bots
    ELSE Goto("seed") /\ additional_bots' = r.val

\* Lines 113-129 and the return to generate_bot_ips (line 147).
Converted(cfg) == LoadEnds(ConvertedConfigs[cfg])

\* Lines 82-87: read and parse the bundled resource.
LoadBundled ==
    /\ pc = "load_bundled"
    /\ \E o \in BundledOutcomes :
        IF o = "ok"
        THEN \E cfg \in AdditionalConfigs :
                /\ hist' = [hist EXCEPT !.bundled = o,
                               !.lastInput = ConfigObservations[cfg].lastInput,
                               !.shared = ConfigObservations[cfg].shared]
                /\ Converted(cfg)
        ELSE /\ hist' = [hist EXCEPT !.bundled = o]
             /\ UNCHANGED additional_bots
             /\ IF o \in BundledCaught THEN Goto("load_local") ELSE Raise(o)
    /\ UNCHANGED <<main_data, bot_ip_ranges, total_ranges, idx, outFile, arg, ret>>

\* Lines 88-100: the file additional_bots.json of the working directory.
LoadLocal ==
    /\ pc = "load_local"
    /\ \E o \in LocalOutcomes :
        IF o = "ok"
        THEN \E cfg \in AdditionalConfigs :
                /\ hist' = [hist EXCEPT !.local = o,
                               !.lastInput = ConfigObservations[cfg].lastInput,
                               !.shared = ConfigObservations[cfg].shared]
                /\ Converted(cfg)
        ELSE /\ hist' = [hist EXCEPT !.local = o]
             /\ IF o = "absent" \/ o \in LocalCaught
                THEN Goto("seed") /\ additional_bots' = <<>>
                ELSE Raise(o) /\ UNCHANGED additional_bots
    /\ UNCHANGED <<main_data, bot_ip_ranges, total_ranges, idx, outFile, arg, ret>>

\* Lines 150-154: seed the working mapping and the total, start the loop.
SeedWorkingMapping ==
    /\ pc = "seed"
    /\ bot_ip_ranges' = additional_bots
    /\ total_ranges' = SumLens(additional_bots, DOMAIN additional_bots)
    /\ IF SubscriptRaises(main_data) \/ IterRaises(Lookup(main_data, K.data))
       THEN Raise("TypeError") /\ UNCHANGED idx
       ELSE Goto("loop") /\ idx' = 1
    /\ hist' = [hist EXCEPT !.bundled = "", !.local = ""]
    /\ UNCHANGED <<main_data, additional_bots, outFile, arg, ret>>

\* A loop that visits main_data['data'] from its last element to its first.
Items_Reversed ==
    [k \in 1..Len(IterItems(Lookup(main_data, K.data))) |->
        IterItems(Lookup(main_data, K.data))[Len(IterItems(Lookup(main_data, K.data))) + 1 - k]]

\* The items the loop of line 154 visits, in order.
Items == IterItems(Lookup(main_data, K.data))

\* Lines 154-180: one iteration of the loop over main_data['data'].
ProcessEntry ==
    /\ pc = "loop"
    /\ idx <= Len(Items)
    /\ LET plan == ItemPlan(Items[idx]) IN
       CASE plan.do = "raise" ->
                /\ Raise("TypeError")
                /\ UNCHANGED <<bot_ip_ranges, total_ranges, idx, hist>>
         [] plan.do = "skip" ->
                /\ Goto("loop")
                /\ idx' = idx + 1
                /\ hist' = [hist EXCEPT !.stored = <<>>]
                /\ UNCHANGED <<bot_ip_ranges, total_ranges>>
         [] OTHER ->
                \E endpoint_data \in FetchResults(Lookup(plan.source, K.url)) :
                    LET source_id == DictGet(plan.source, K.id, JStr(K.unknown))
                        source_type == DictGet(plan.source, K.type, JStr(K.unknown))
                        ipv4_ranges == Extracted[endpoint_data]
                        seen == Observed(hist, idx, plan.source, endpoint_data)
                    IN  IF ~YieldsRanges(endpoint_data)
                        THEN /\ Goto("loop")
                             /\ idx' = idx + 1
                             /\ hist' = seen
                             /\ UNCHANGED <<bot_ip_ranges, total_ranges>>
                        ELSE IF source_type.t # "str" \/ source_id.t # "str"
                        THEN /\ Raise("AttributeError")
                             /\ hist' = seen
                             /\ UNCHANGED <<bot_ip_ranges, total_ranges, idx>>
                        ELSE LET bot_name == BotName(source_type.v, source_id.v) IN
                             /\ Goto("loop")
                             /\ idx' = idx + 1
                             /\ bot_ip_ranges' = SetBot(bot_ip_ranges, bot_name, ipv4_ranges)
                             /\ total_ranges' = AddToTotal(total_ranges, ipv4_ranges)
                             /\ hist' = [seen EXCEPT !.stored = bot_name]
    /\ UNCHANGED <<main_data, additional_bots, outFile, arg, ret>>

\* Lines 183-224: render the artifact and write it.
WriteOutput ==
    /\ pc = "loop"
    /\ idx > Len(Items)
    /\ \E written \in BOOLEAN :
        /\ outFile' = [opened |-> TRUE, written |-> written,
                       lines |-> IF written THEN OutputContent(bot_ip_ranges, total_ranges)
                                 ELSE <<>>]
        /\ hist' = [hist EXCEPT !.writeFailed = ~written, !.stored = <<>>]
        /\ Return(WriteStatus(written))
    /\ UNCHANGED <<main_data, additional_bots, bot_ip_ranges, total_ranges, idx, arg, ret>>

Next ==
    \/ FetchIndex
    \/ LoadBundled
    \/ LoadLocal
    \/ SeedWorkingMapping
    \/ ProcessEntry
    \/ WriteOutput

Spec == Init /\ [][Next]_vars

----------------------------------------------------------------------------
(* The properties.                                                         *)

\* The index document holds a list under `data`.
HasDataList(doc) ==
    doc.t = "dict" /\ HasKey(doc, K.data) /\ Lookup(doc, K.data).t = "list"

\* The index document has a `data` field.
HasData(doc) == doc.t = "dict" /\ HasKey(doc, K.data)

\* The per-source fetches made so far.
SourceFetches == Len(hist.fetches) - 1

\* The lines of the written artifact, and the positions of its bot comments.
Lines == outFile.lines
BotLines == {k \in 1..Len(Lines) : Lines[k].k = "bot"}

\* C1: when the index fetch fails or the index document lacks a `data` list,
\* generate_bot_ips returns 1, makes no per-source fetch, and neither opens nor
\* writes the output file.
C1_IndexRejected ==
    (pc # "fetch_index" /\ ~HasDataList(main_data))
        => /\ pc = "done"
           /\ status = 1
           /\ SourceFetches = 0
           /\ ~outFile.opened
           /\ ~outFile.written

\* An entry of `data` whose parts have the types the index publishes: a mapping
\* whose `source`, if any, is a mapping with str `id` and `type`, if any.
WellFormedEntry(item) ==
    /\ item.t = "dict"
    /\ HasKey(item, K.source) =>
        /\ Lookup(item, K.source).t = "dict"
        /\ DictGet(Lookup(item, K.source), K.id, JStr(K.unknown)).t = "str"
        /\ DictGet(Lookup(item, K.source), K.type, JStr(K.unknown)).t = "str"

\* C2: once the index document is fetched and contains `data`, the returned status
\* depends on the write alone: 1 if the write failed with an I/O error, 0 otherwise;
\* and whatever a per-source fetch returns (nothing, a document without ranges,
\* invalid prefixes), the loop goes on to the next entry.
C2_StatusFollowsWrite ==
    /\ [](pc = "done" /\ IndexCheck(main_data) = "accept"
            => /\ outFile.opened
               /\ status = (IF hist.writeFailed THEN 1 ELSE 0)
               /\ outFile.written = ~hist.writeFailed)
    /\ [][(pc = "loop" /\ idx <= Len(Items) /\ WellFormedEntry(Items[idx]))
            => (pc' = "loop" /\ idx' = idx + 1)]_vars

\* A run returned 0, and 1 is not what it returned, after a per-source fetch failed
\* last of all.
C2_Witness ==
    /\ pc = "done"
    /\ status = 0
    /\ HasDataList(main_data)
    /\ SourceFetches = 2
    /\ hist.failed

\* The step of one entry whose fetch failed or whose document holds no usable prefix.
EmptyStep ==
    /\ pc = "loop"
    /\ Len(hist'.fetches) = Len(hist.fetches) + 1
    /\ (hist'.failed \/ ~hist'.usable)

\* C3: processing an entry whose fetch fails, or whose document yields no ranges,
\* leaves the working mapping and the running total unchanged and goes on; and the
\* written artifact names exactly the bots whose input held a range.
C3_EmptyStepChangesNothing ==
    /\ [][EmptyStep => /\ bot_ip_ranges' = bot_ip_ranges
                       /\ total_ranges' = total_ranges
                       /\ pc' = "loop"]_vars
    /\ [](pc = "done" /\ outFile.written
            => {Lines[k].s : k \in BotLines} = DOMAIN hist.lastInput)

\* The fetch of the second entry failed while the mapping held an additional bot
\* and the bot of the first entry.
C3_Witness ==
    /\ pc = "loop"
    /\ SourceFetches = 2
    /\ hist.failed
    /\ DOMAIN bot_ip_ranges = {K.UnknownBot, T.UnknownAB}
    /\ T.UnknownAB \notin DOMAIN additional_bots

\* C4: no exception escapes: for every index document that has a `data` field and
\* every per-source and additional-bots document, wrong types included, the run
\* ends by returning a status code; an exception can only come from a failure to
\* read the bundled resource.
C4_NoExceptionEscapes ==
    (pc = "raised" /\ HasData(main_data)) => hist.bundled \notin {"", "ok"}

\* C5: in the written artifact every bot's ranges are unique and ascending, and the
\* bots are in ascending order of name.
C5_ArtifactSorted ==
    (pc = "done" /\ outFile.written)
        => /\ \A k \in 1..(Len(Lines) - 1) :
                (Lines[k].k = "range" /\ Lines[k + 1].k = "range")
                    => StrLess(Lines[k].s, Lines[k + 1].s)
           /\ \A i, j \in BotLines : i < j => StrLess(Lines[i].s, Lines[j].s)

\* An artifact of two bots, one of them with two ranges that a source listed in
\* descending order.
C5_Witness ==
    /\ pc = "done"
    /\ outFile.written
    /\ Cardinality(BotLines) = 2
    /\ hist.usable
    /\ \E k \in 1..(Len(Lines) - 1) : Lines[k].k = "range" /\ Lines[k + 1].k = "range"
    /\ T.UnknownAB \in DOMAIN bot_ip_ranges
    /\ Len(bot_ip_ranges[T.UnknownAB]) = 2
    /\ T.UnknownAB \notin DOMAIN additional_bots

\* C6: a name that two inputs of the run produced holds exactly the ranges of the
\* input processed last, never a merge, and appears once in the artifact.
C6_LastWriteWins ==
    pc \in {"loop", "done"}
        => /\ \A n \in hist.shared :
                /\ n \in DOMAIN bot_ip_ranges
                /\ Range(bot_ip_ranges[n]) = hist.lastInput[n]
           /\ outFile.written =>
                \A n \in hist.shared :
                    Cardinality({k \in BotLines : Lines[k].s = n}) = 1

\* A source replaced the ranges of an additional bot of its name, which had itself
\* replaced those of an earlier additional bot; a range of the additional bot is gone.
C6_Witness ==
    /\ pc = "done"
    /\ outFile.written
    /\ \E n \in hist.shared :
        /\ n \in DOMAIN additional_bots
        /\ Range(additional_bots[n]) \ Range(bot_ip_ranges[n]) # {}
        /\ Range(bot_ip_ranges[n]) \ Range(additional_bots[n]) # {}

\* C7: each entry that yields ranges adds to the running total the length of the
\* deduplicated sorted list stored under its name; the total starts as the combined
\* size of the additional bots' lists.
C7_TotalCountsStored ==
    /\ [][(pc = "loop" /\ hist'.stored # <<>>)
            => total_ranges' = total_ranges + Len(bot_ip_ranges'[hist'.stored])]_vars
    /\ [](pc = "loop" /\ idx = 1
            => total_ranges = SumLens(additional_bots, DOMAIN additional_bots))

\* The `prefixes` list of a document, <<>> when it has none.
PrefixList(d) ==
    IF d.t = "dict" /\ HasKey(d, K.prefixes) /\ Lookup(d, K.prefixes).t = "list"
    THEN Lookup(d, K.prefixes).v
    ELSE <<>>

\* C8: extract_ipv4_addresses returns, in document order and with duplicates kept,
\* exactly the normalized ranges of the `prefixes` elements that are mappings with a
\* str `ipv4Prefix` the normalizer accepts; the other elements are skipped; and the
\* result is empty for a non-mapping, a missing `prefixes` or one that is no list.
C8_ExtractInOrder ==
    pc = "extract_ret"
        => /\ Len(ret) = Cardinality(UsableAt(arg))
           /\ \A k \in UsableAt(arg) :
                ret[Cardinality({j \in UsableAt(arg) : j <= k})]
                    = cidr_to_range(Lookup(PrefixList(arg)[k], K.ipv4Prefix).v).val
           /\ (arg.t # "dict" \/ ~HasKey(arg, K.prefixes)
                   \/ Lookup(arg, K.prefixes).t # "list") => ret = <<>>

\* A list whose first element cannot be used and whose second can.
C8_Witness ==
    /\ pc = "extract_ret"
    /\ Len(PrefixList(arg)) = 2
    /\ UsableAt(arg) = {2}
    /\ Len(ret) = 1

\* The host bits of octet k (1 the most significant) under prefix length n.
HostBits(n, k) ==
    IF 8 * k - n <= 0 THEN 0 ELSE IF 8 * k - n >= 8 THEN 8 ELSE 8 * k - n

\* The address a with its low 32-n bits cleared, and with them set.
LowAddress(a, n) == [k \in 1..4 |-> a[k] - (a[k] % (2 ^ HostBits(n, k)))]
HighAddress(a, n) == [k \in 1..4 |-> LowAddress(a, n)[k] + (2 ^ HostBits(n, k)) - 1]

\* C9: for every address a and prefix length n in 0..32, cidr_to_range of a/n is the
\* range from a with its low 32-n bits cleared to a with them set, host bits zero or
\* not; for a text that is no IPv4 CIDR, IPv6 included, it returns no value.
C9_RangeOfCidr ==
    pc = "cidr_ret"
        => IF arg.kind = "cidr"
           THEN ret = Some(AddressText(LowAddress(arg.a, arg.n)) \o <<Ch.hyphen>>
                           \o AddressText(HighAddress(arg.a, arg.n)))
           ELSE ret = None

\* A CIDR with host bits set, its prefix ending inside an octet.
C9_Witness ==
    /\ pc = "cidr_ret"
    /\ arg.kind = "cidr"
    /\ arg.a = <<10, 77, 128, 255>>
    /\ arg.n = 13
    /\ ret.some

\* C10: without a path the bundled resource is tried first; on any failure to read
\* or parse it the local file is consulted; if that file is absent or fails to
\* parse, the result is the empty mapping; the local file is consulted only after
\* the bundled resource failed.
C10_FallsBack ==
    /\ (hist.bundled \notin {"", "ok"} /\ hist.local = "") => pc = "load_local"
    /\ hist.local \notin {"", "ok"} => (pc = "seed" /\ additional_bots = <<>>)
    /\ hist.local # "" => hist.bundled \notin {"", "ok"}

\* The elements of the index's `data`, as the document lists them.
DataItems == IF HasData(main_data) THEN IterItems(Lookup(main_data, K.data)) ELSE <<>>

\* An element of `data` that names a URL under `source`.
HasSourceUrl(item) ==
    /\ item.t = "dict"
    /\ HasKey(item, K.source)
    /\ Lookup(item, K.source).t = "dict"
    /\ HasKey(Lookup(item, K.source), K.url)

\* C11: a run fetches the fixed index URL once and first, then at most once per
\* element of `data`, in list order, the URL under that element's `source`; an
\* element without source.url causes no fetch and no fetch is made a second time
\* after a failure; the output file is opened only after the last fetch returned.
C11_FetchOrder ==
    /\ [](pc # "fetch_index"
            => /\ Len(hist.fetches) >= 1
               /\ hist.fetches[1] = [i |-> 0, url |-> JStr(K.main_url)]
               /\ \A k \in 2..Len(hist.fetches) :
                    /\ hist.fetches[k].i \in 1..Len(DataItems)
                    /\ hist.fetches[k].i > hist.fetches[k - 1].i
                    /\ HasSourceUrl(DataItems[hist.fetches[k].i])
                    /\ hist.fetches[k].url
                           = Lookup(Lookup(DataItems[hist.fetches[k].i], K.source), K.url)
               /\ pc \in {"loop", "done"} =>
                    \A i \in 1..(idx - 1) :
                        HasSourceUrl(DataItems[i])
                            => \E k \in 2..Len(hist.fetches) : hist.fetches[k].i = i
               /\ outFile.opened => (pc = "done" /\ idx = Len(DataItems) + 1))
    /\ [][outFile.opened => hist'.fetches = hist.fetches]_vars

\* A written run whose first element named no URL and whose second was fetched
\* once, the fetch failing.
C11_Witness ==
    /\ pc = "done"
    /\ outFile.written
    /\ Len(DataItems) = 2
    /\ ~HasSourceUrl(DataItems[1])
    /\ Len(hist.fetches) = 2
    /\ hist.fetches[2].i = 2
    /\ hist.failed

\* C12: in every written artifact the number after `# Total IP ranges:` equals the
\* number of range lines emitted inside GOOD_BOTS, the sum of the lengths of the
\* lists of the final mapping.
C12_TotalMatchesEmitted ==
    (pc = "done" /\ outFile.written)
        => /\ Lines[Len(Lines)].k = "total"
           /\ Lines[Len(Lines)].n = Cardinality({k \in 1..Len(Lines) : Lines[k].k = "range"})
           /\ Lines[Len(Lines)].n = SumLens(bot_ip_ranges, DOMAIN bot_ip_ranges)

====
